---------------------------- MODULE Spec2Model ----------------------------
(***************************************************************************)
(* Model of src/app/page.tsx (CryptoKitties genome visualiser).            *)
(*                                                                         *)
(*   splitGenesToQuads    the genome decoder    (page.tsx 37-56)           *)
(*   deriveTraitRelation  the trait classifier  (page.tsx 107-122)         *)
(*                                                                         *)
(* A JavaScript string is modelled as the sequence of its characters, each *)
(* character a one-character TLA+ string: "abc" is <<"a", "b", "c">> and   *)
(* "" is <<>>.  An array of strings is a sequence of such sequences.  The  *)
(* value undefined is the marker below, which is no character sequence.    *)
(* A BigInt is a sign and a magnitude of unbounded size, held as base      *)
(* 65536 limbs, least significant first, without leading zero limbs; the   *)
(* magnitude of 0n is <<>>.  No limb operation leaves the 32-bit integers  *)
(* of the model checker.                                                   *)
(***************************************************************************)
EXTENDS Integers, Sequences, FiniteSets, TLC

VARIABLES
    genes,        \* argument genesBigIntString of the decoder call
    quads,        \* completion of splitGenesToQuads(genes), "pending" before
    matronArg,    \* arguments matronQuad, sireQuad, kittenQuad of the
    sireArg,      \* classifier call
    kittenArg,
    relation,     \* result of deriveTraitRelation, "pending" before the call
    kitten,       \* state of Home, page.tsx lines 393-399
    matron,
    sire,
    error,
    isTourOpen,
    tourStep,
    kittyIdInput,
    cancelled,    \* flag of the initial-load effect, line 402
    effect,       \* the async function started by the initial-load effect
    loads,        \* the calls of loadKittenById and loadRandomRecent, in
                  \* the order they were started
    rendered,     \* hasAnyMutation as the last render of Home computed it
    targetEl,     \* state of Home, line 484
    tourEffect,   \* the tour-target effect: the isTourOpen and tourStep it
                  \* last ran with, and whether its find is still polling
    stalePolls    \* the polling find callbacks of effect runs cleaned up

pureVars == <<genes, quads, matronArg, sireArg, kittenArg, relation>>

stateVars == <<kitten, matron, sire, error, isTourOpen, tourStep, kittyIdInput>>

tourVars == <<targetEl, tourEffect, stalePolls>>

homeVars == <<stateVars, cancelled, effect, loads, rendered, tourVars>>

vars == <<pureVars, homeVars>>

undefined == <<"undefined">>

\* null, and the undefined left by a lookup of a missing key (line 441), as
\* values of a state slot that holds a record
null == [null |-> TRUE]
undefinedRecord == [undefined |-> TRUE]

\* a string held in a slot that can also hold null: the parts of the string
StringOf(parts) == [string |-> parts]

Max(a, b) == IF a >= b THEN a ELSE b
Min(a, b) == IF a <= b THEN a ELSE b

(***************************************************************************)
(* Completion records: how a call ends.                                    *)
(***************************************************************************)
Normal(v) == [type |-> "normal", value |-> v]
Throw(e) == [type |-> "throw", value |-> <<e>>]
Pending == [type |-> "pending", value |-> <<>>]

(***************************************************************************)
(* Characters.  Digit characters in the order of their values; the input   *)
(* alphabet of the model holds no upper-case letters, and the space is its *)
(* only white-space character.                                             *)
(***************************************************************************)
HexDigits ==
    <<"0", "1", "2", "3", "4", "5", "6", "7",
      "8", "9", "a", "b", "c", "d", "e", "f">>

DigitValue ==
    ("0" :> 0) @@ ("1" :> 1) @@ ("2" :> 2) @@ ("3" :> 3) @@ ("4" :> 4) @@
    ("5" :> 5) @@ ("6" :> 6) @@ ("7" :> 7) @@ ("8" :> 8) @@ ("9" :> 9) @@
    ("a" :> 10) @@ ("b" :> 11) @@ ("c" :> 12) @@ ("d" :> 13) @@
    ("e" :> 14) @@ ("f" :> 15)

IsDigitOfRadix(c, radix) == c \in DOMAIN DigitValue /\ DigitValue[c] < radix

AllDigits(s, radix) ==
    Len(s) > 0 /\ \A i \in 1..Len(s) : IsDigitOfRadix(s[i], radix)

StrWhiteSpaceChar == {" "}

RECURSIVE TrimStart(_)
TrimStart(s) ==
    IF s # <<>> /\ Head(s) \in StrWhiteSpaceChar THEN TrimStart(Tail(s)) ELSE s

RECURSIVE TrimEnd(_)
TrimEnd(s) ==
    IF s # <<>> /\ s[Len(s)] \in StrWhiteSpaceChar
    THEN TrimEnd(SubSeq(s, 1, Len(s) - 1))
    ELSE s

TrimString(s) == TrimEnd(TrimStart(s))

(***************************************************************************)
(* BigInt arithmetic on limbs.                                             *)
(***************************************************************************)
LimbBase == 16 * 16 * 16 * 16

\* limbs * radix + carry
RECURSIVE MulAdd(_, _, _)
MulAdd(limbs, radix, carry) ==
    IF limbs = <<>>
    THEN IF carry = 0 THEN <<>> ELSE <<carry>>
    ELSE <<(Head(limbs) * radix + carry) % LimbBase>>
         \o MulAdd(Tail(limbs), radix, (Head(limbs) * radix + carry) \div LimbBase)

\* the value of the few digits s[lo..hi] of the given radix, an integer
RECURSIVE SmallMV(_, _, _, _)
SmallMV(s, lo, hi, radix) ==
    IF hi < lo THEN 0 ELSE SmallMV(s, lo, hi - 1, radix) * radix + DigitValue[s[hi]]

RECURSIVE Pow(_, _)
Pow(radix, n) == IF n = 0 THEN 1 ELSE radix * Pow(radix, n - 1)

\* digits taken at a time: radix^ChunkLen(radix) times a limb is a 32-bit integer
ChunkLen(radix) == IF radix = 2 THEN 12 ELSE IF radix = 16 THEN 3 ELSE 4

\* the mathematical value (MV) of the digits s[lo..hi] of the given radix
\* after those that gave acc: MV(digits d) = MV(digits) * radix + MV(d),
\* taken ChunkLen digits at a time.  The accumulator is read first at each
\* step, which keeps the evaluation of the steps in sequence.
RECURSIVE MVOfDigits(_, _, _, _, _)
MVOfDigits(s, lo, hi, radix, acc) ==
    IF acc = <<>> /\ lo > hi THEN <<>>
    ELSE IF lo > hi THEN acc
    ELSE MVOfDigits(s, lo + Min(ChunkLen(radix), hi - lo + 1), hi, radix,
             MulAdd(acc,
                    Pow(radix, Min(ChunkLen(radix), hi - lo + 1)),
                    SmallMV(s, lo, lo + Min(ChunkLen(radix), hi - lo + 1) - 1, radix)))

BigIntValue(neg, mag) == [neg |-> neg /\ mag # <<>>, mag |-> mag]

(***************************************************************************)
(* BigInt(string), page.tsx line 41: StringToBigInt of the language.  The  *)
(* string is trimmed; the empty string is 0n; a decimal literal may carry  *)
(* a sign; 0x, 0o and 0b literals carry none; anything else throws a       *)
(* SyntaxError.                                                            *)
(***************************************************************************)
NonDecimalPrefix(t, letters) ==
    Len(t) >= 2 /\ t[1] = "0" /\ t[2] \in letters

StringToBigInt(t) ==
    IF t = <<>> THEN
        Normal(BigIntValue(FALSE, <<>>))
    ELSE IF NonDecimalPrefix(t, {"x", "X"}) /\ AllDigits(SubSeq(t, 3, Len(t)), 16) THEN
        Normal(BigIntValue(FALSE, MVOfDigits(t, 3, Len(t), 16, <<>>)))
    ELSE IF NonDecimalPrefix(t, {"o", "O"}) /\ AllDigits(SubSeq(t, 3, Len(t)), 8) THEN
        Normal(BigIntValue(FALSE, MVOfDigits(t, 3, Len(t), 8, <<>>)))
    ELSE IF NonDecimalPrefix(t, {"b", "B"}) /\ AllDigits(SubSeq(t, 3, Len(t)), 2) THEN
        Normal(BigIntValue(FALSE, MVOfDigits(t, 3, Len(t), 2, <<>>)))
    ELSE IF AllDigits(t, 10) THEN
        Normal(BigIntValue(FALSE, MVOfDigits(t, 1, Len(t), 10, <<>>)))
    ELSE IF t[1] \in {"+", "-"} /\ AllDigits(Tail(t), 10) THEN
        Normal(BigIntValue(t[1] = "-", MVOfDigits(t, 2, Len(t), 10, <<>>)))
    ELSE
        Throw("SyntaxError")

BigInt(str) == StringToBigInt(TrimString(str))

(***************************************************************************)
(* big.toString(16), page.tsx line 42: lower-case digits, no leading       *)
(* zeros, "-" before the digits of a negative value.                       *)
(***************************************************************************)
\* the hexadecimal digits of the limbs, most significant first, four a limb
LimbsToHex(limbs) ==
    [k \in 1..(4 * Len(limbs)) |->
        HexDigits[((limbs[Len(limbs) - ((k - 1) \div 4)]
                    \div Pow(16, 3 - ((k - 1) % 4))) % 16) + 1]]

RECURSIVE StripLeadingZeros(_)
StripLeadingZeros(s) ==
    IF Len(s) > 1 /\ Head(s) = "0" THEN StripLeadingZeros(Tail(s)) ELSE s

toString16(big) ==
    IF big.mag = <<>>
    THEN <<"0">>
    ELSE (IF big.neg THEN <<"-">> ELSE <<>>) \o StripLeadingZeros(LimbsToHex(big.mag))

\* mutant: the padding to 64 digits forgotten
padStart_NoPad(s, targetLength, padChar) == s

\* String.prototype.padStart(targetLength, padString) with a one-character pad
padStart(s, targetLength, padChar) ==
    IF Len(s) >= targetLength
    THEN s
    ELSE [i \in 1..(targetLength - Len(s)) |-> padChar] \o s

\* hex.split(""): the array of the one-character strings of s
split(s) == [i \in 1..Len(s) |-> <<s[i]>>]

\* arr.join(""): the concatenation of the strings of arr
RECURSIVE join(_)
join(arr) == IF arr = <<>> THEN <<>> ELSE Head(arr) \o join(Tail(arr))

\* Array.prototype.slice(start, end): negative indices count from the end
slice(arr, start, end) ==
    LET len == Len(arr)
        k == IF start < 0 THEN Max(len + start, 0) ELSE Min(start, len)
        final == IF end < 0 THEN Max(len + end, 0) ELSE Min(end, len)
    IN  IF k >= final THEN <<>> ELSE SubSeq(arr, k + 1, final)

\* mutant: groups.push(x) in place of groups.unshift(x)
unshift_Push(groups, x) == groups \o <<x>>

\* groups.unshift(x)
unshift(groups, x) == <<x>> \o groups

\* for (let i = 0; i < 12; i++) { ... groups.unshift(...) }, lines 48-51
RECURSIVE GroupLoop(_, _, _)
GroupLoop(last48, i, groups) ==
    IF i < 12
    THEN GroupLoop(last48, i + 1,
             unshift(groups,
                 join(slice(last48, Len(last48) - (i + 1) * 4,
                            Len(last48) - (i + 1) * 4 + 4))))
    ELSE groups

\* mutant: nibbles.slice(0, 48), the leftmost 48 digits
Last48_First48(nibbles) == slice(nibbles, 0, 48)

\* nibbles.slice(-48), line 46
Last48(nibbles) == slice(nibbles, -48, Len(nibbles))

\* the try block, lines 41-52
TryBlock(genesBigIntString) ==
    LET big == BigInt(genesBigIntString)
    IN  IF big.type = "throw"
        THEN big
        ELSE Normal(GroupLoop(
                 Last48(split(padStart(toString16(big.value), 64, "0"))),
                 0, <<>>))

\* mutant: no catch clause, the SyntaxError reaches the caller
splitGenesToQuads_NoCatch(genesBigIntString) == TryBlock(genesBigIntString)

\* try { ... } catch { return []; }, lines 40-55
splitGenesToQuads(genesBigIntString) ==
    LET r == TryBlock(genesBigIntString)
    IN  IF r.type = "throw" THEN Normal(<<>>) ELSE r

(***************************************************************************)
(* Inputs of the decoder.                                                  *)
(***************************************************************************)
MaxHead == 2

HeadChars == {"0", "1", "9", "a", "x", "-", "+", " "}
TailDigits == {"0", "9"}

Heads == UNION {[1..n -> HeadChars] : n \in 0..MaxHead}

Str(ds) == [i \in 1..Len(ds) |-> HexDigits[ds[i] + 1]]

\* 2^192 and 2^192 - 1
Pow192 ==
    Str(<<6,2,7,7,1,0,1,7,3,5,3,8,6,6,8,0,7,6,3,8,3,5,7,8,9,4,2,3,2,0,
          7,6,6,6,4,1,6,1,0,2,3,5,5,4,4,4,4,6,4,0,3,4,5,1,2,8,9,6>>)
Pow192Minus1 ==
    Str(<<6,2,7,7,1,0,1,7,3,5,3,8,6,6,8,0,7,6,3,8,3,5,7,8,9,4,2,3,2,0,
          7,6,6,6,4,1,6,1,0,2,3,5,5,4,4,4,4,6,4,0,3,4,5,1,2,8,9,5>>)
\* 2^256 - 1, the largest 256-bit genome
Pow256Minus1 ==
    Str(<<1,1,5,7,9,2,0,8,9,2,3,7,3,1,6,1,9,5,4,2,3,5,7,0,9,8,5,0,0,8,
          6,8,7,9,0,7,8,5,3,2,6,9,9,8,4,6,6,5,6,4,0,5,6,4,0,3,9,4,5,7,
          5,8,4,0,0,7,9,1,3,1,2,9,6,3,9,9,3,5>>)
\* the genome of an early kitty
SampleGenes ==
    Str(<<6,2,6,8,3,7,6,2,1,1,5,4,8,0,1,6,1,6,0,8,8,9,8,0,9,2,2,6,5,9,
          8,7,7,1,6,8,6,0,9,1,5,4,3,8,6,3,1,8,3,0,4,4,9,6,6,9,2,3,7,4,
          1,1,0,7,1,6,9,9,9,0,5,3>>)

GeneSamples ==
    {Pow192, Pow192Minus1, Pow256Minus1, SampleGenes, <<"a", "b", "c">>}

TailLens == {0, 13, 26, 39, 52, 57, 65, 76}

GeneInputs ==
    {h \o [i \in 1..n |-> d] : h \in Heads, d \in TailDigits, n \in TailLens}
    \cup GeneSamples

(***************************************************************************)
(* The decoder called once on an input.                                    *)
(***************************************************************************)
\* the pure functions called on their own, with no Home component mounted
HomeNotMounted ==
    /\ kitten = null
    /\ matron = null
    /\ sire = null
    /\ error = null
    /\ isTourOpen = FALSE
    /\ tourStep = null
    /\ kittyIdInput = ""
    /\ cancelled = FALSE
    /\ effect = [pc |-> "notStarted"]
    /\ loads = <<>>
    /\ rendered = FALSE
    /\ targetEl = null
    /\ tourEffect = [isTourOpen |-> FALSE, tourStep |-> null,
                     polling |-> FALSE]
    /\ stalePolls = 0

InitDecoder ==
    /\ genes \in GeneInputs
    /\ quads = Pending
    /\ matronArg = undefined
    /\ sireArg = undefined
    /\ kittenArg = undefined
    /\ relation = "pending"
    /\ HomeNotMounted

CallSplitGenesToQuads ==
    /\ quads.type = "pending"
    /\ quads' = splitGenesToQuads(genes)
    /\ UNCHANGED <<genes, matronArg, sireArg, kittenArg, relation, homeVars>>

NextDecoder == CallSplitGenesToQuads

SpecDecoder == InitDecoder /\ [][NextDecoder]_vars

(***************************************************************************)
(* What the decoder claims speak of, stated without the decoder.           *)
(***************************************************************************)
DecimalDigitChars == {"0", "1", "2", "3", "4", "5", "6", "7", "8", "9"}
HexDigitChars == DecimalDigitChars \cup {"a", "b", "c", "d", "e", "f"}

\* a valid non-negative decimal integer: one or more decimal digits
IsDecimalString(s) ==
    Len(s) > 0 /\ \A i \in 1..Len(s) : s[i] \in DecimalDigitChars

\* radix^k modulo m, by squaring; m * m is a 32-bit integer
RECURSIVE PowMod(_, _, _)
PowMod(radix, k, m) ==
    IF k = 0 THEN 1 % m
    ELSE IF k % 2 = 1 THEN (PowMod(radix, k - 1, m) * radix) % m
    ELSE (PowMod(radix, k \div 2, m) * PowMod(radix, k \div 2, m)) % m

\* the number written by the digits s[lo..hi] of a radix, modulo m, by halves
RECURSIVE DigitsMod(_, _, _, _, _)
DigitsMod(s, lo, hi, radix, m) ==
    IF hi < lo THEN 0
    ELSE IF hi = lo THEN DigitValue[s[lo]] % m
    ELSE (DigitsMod(s, lo, (lo + hi) \div 2, radix, m)
              * PowMod(radix, hi - ((lo + hi) \div 2), m)
          + DigitsMod(s, ((lo + hi) \div 2) + 1, hi, radix, m)) % m

\* the number written by the digits s[1..n] of a radix, modulo m
RECURSIVE HornerMod(_, _, _, _)
HornerMod(s, n, radix, m) ==
    IF n = 0 THEN 0 ELSE (HornerMod(s, n - 1, radix, m) * radix + DigitValue[s[n]]) % m

\* n modulo 2^16 is decided by the last 16 decimal digits of n
Low16Bits(s) ==
    HornerMod(SubSeq(s, Max(1, Len(s) - 15), Len(s)), Min(16, Len(s)), 10, 65536)

\* the hexadecimal rendering of the genome, left-padded with zeros to 64
HexRendering(s) == toString16(BigInt(s).value)
LeftPadded64(hex) ==
    IF Len(hex) >= 64 THEN hex ELSE [i \in 1..(64 - Len(hex)) |-> "0"] \o hex
Window48(s) ==
    LET padded == LeftPadded64(HexRendering(s))
    IN  SubSeq(padded, Len(padded) - 47, Len(padded))

DecoderCalled == quads.type # "pending"

\* C1: for every input that is a valid non-negative decimal integer, the
\* decoder returns exactly 12 groups, each exactly 4 hexadecimal characters.
C1_TwelveGroupsOfFourHex ==
    (DecoderCalled /\ IsDecimalString(genes)) =>
        /\ quads.type = "normal"
        /\ Len(quads.value) = 12
        /\ \A i \in 1..Len(quads.value) :
              /\ Len(quads.value[i]) = 4
              /\ \A j \in 1..Len(quads.value[i]) :
                    quads.value[i][j] \in HexDigitChars

\* the largest 256-bit genome (78 decimal digits) decoded to 12 groups "ffff"
C1_Witness ==
    /\ quads.type = "normal"
    /\ genes = Pow256Minus1
    /\ Len(quads.value) = 12
    /\ quads.value[1] = <<"f", "f", "f", "f">>

SampleQuads ==
    <<<<"4","c","e","4">>, <<"b","9","2","9">>, <<"0","1","4","6">>,
      <<"5","3","1","8">>, <<"8","4","7","2">>, <<"1","a","d","1">>,
      <<"8","c","6","3">>, <<"2","9","8","a">>, <<"5","3","0","8">>,
      <<"a","5","5","a">>, <<"d","6","b","6">>, <<"b","5","8","d">>>>

\* C2: for a decimal genome n the 12 groups, concatenated in output order,
\* are the rightmost 48 digits of n's hexadecimal rendering left-padded to 64
\* digits; group i (0-based) is digits 4i..4i+3 of that window, and group 11
\* holds the least-significant 16 bits of n.  The rendering itself is
\* checked against n modulo the primes 32749 and 10007, computed from the
\* decimal digits.
C2_GroupsAreRightmost48 ==
    (DecoderCalled /\ IsDecimalString(genes)) =>
        /\ quads.type = "normal"
        /\ Len(quads.value) = 12
        /\ join(quads.value) = Window48(genes)
        /\ \A i \in 0..11 :
              quads.value[i + 1] = SubSeq(Window48(genes), 4 * i + 1, 4 * i + 4)
        /\ SmallMV(quads.value[12], 1, 4, 16) = Low16Bits(genes)
        /\ \A m \in {32749, 10007} :
              DigitsMod(HexRendering(genes), 1, Len(HexRendering(genes)), 16, m)
                  = DigitsMod(genes, 1, Len(genes), 10, m)

\* a real genome of 72 decimal digits decoded to its known groups
C2_Witness ==
    /\ quads.type = "normal"
    /\ genes = SampleGenes
    /\ quads.value = SampleQuads

\* no decimal digit, and a character that is not white space: such a string
\* is no numeric literal of any radix
NonNumeric(s) ==
    /\ \E i \in 1..Len(s) : s[i] \notin StrWhiteSpaceChar
    /\ \A i \in 1..Len(s) : s[i] \notin DecimalDigitChars

\* C3: on a non-numeric input (such as "abc", and every input BigInt rejects)
\* the decoder returns the empty sequence and raises nothing to its caller.
C3_NonNumericGivesEmpty ==
    (DecoderCalled /\ (NonNumeric(genes) \/ BigInt(genes).type = "throw")) =>
        /\ quads.type = "normal"
        /\ quads.value = <<>>

C3_Witness ==
    /\ genes = <<"a", "b", "c">>
    /\ quads = Normal(<<>>)

\* C4: on the empty string the decoder returns the empty sequence (not 12
\* groups).
C4_EmptyStringGivesEmpty ==
    (DecoderCalled /\ genes = <<>>) =>
        /\ quads.type = "normal"
        /\ quads.value = <<>>

\* C14: for every input string whatsoever (valid, malformed, negative,
\* white-space-padded or prefixed) the decoder returns either the empty
\* sequence or exactly 12 groups, each a 4-character string made only of
\* hexadecimal digits.
C14_EmptyOrTwelveHexGroups ==
    DecoderCalled =>
        /\ quads.type = "normal"
        /\ \/ quads.value = <<>>
           \/ /\ Len(quads.value) = 12
              /\ \A i \in 1..Len(quads.value) :
                    /\ Len(quads.value[i]) = 4
                    /\ \A j \in 1..Len(quads.value[i]) :
                          quads.value[i][j] \in HexDigitChars

\* 2^256
Pow256 ==
    Str(<<1,1,5,7,9,2,0,8,9,2,3,7,3,1,6,1,9,5,4,2,3,5,7,0,9,8,5,0,0,8,
          6,8,7,9,0,7,8,5,3,2,6,9,9,8,4,6,6,5,6,4,0,5,6,4,0,3,9,4,5,7,
          5,8,4,0,0,7,9,1,3,1,2,9,6,3,9,9,3,6>>)

\* the sum of two decimal strings, added eight digits at a time; the result
\* has one digit more than the longer of the two and may start with "0"
DecChunk(s, c) == SmallMV(s, Max(1, Len(s) - 8 * c - 7), Len(s) - 8 * c, 10)

RECURSIVE DecCarry(_, _, _)
DecCarry(a, b, c) ==
    IF c = 0
    THEN 0
    ELSE (DecChunk(a, c - 1) + DecChunk(b, c - 1) + DecCarry(a, b, c - 1))
             \div 100000000

AddDecimal(a, b) ==
    LET n == Max(Len(a), Len(b)) + 1
        sums == [c \in 0..((n - 1) \div 8) |->
                    (DecChunk(a, c) + DecChunk(b, c) + DecCarry(a, b, c))
                        % 100000000]
    IN  [i \in 1..n |->
            HexDigits[((sums[(n - i) \div 8] \div Pow(10, (n - i) % 8)) % 10) + 1]]

\* multiples of 2^192 added to a genome: 2^192, 2 * 2^192, 2^256
CongruentOffsets == {Pow192, AddDecimal(Pow192, Pow192), Pow256}

\* C18: only the low 192 bits of the genome affect the decoding: a decimal
\* genome n and n plus a multiple of 2^192 (values above 2^256 included) are
\* decoded to the same 12 groups.
C18_Low192BitsDecide ==
    (DecoderCalled /\ IsDecimalString(genes)) =>
        \A d \in CongruentOffsets :
            splitGenesToQuads(AddDecimal(genes, d)) = quads

\* 2^192 - 1, and with it 2^256 + 2^192 - 1, decoded to twelve groups "ffff"
C18_Witness ==
    /\ genes = Pow192Minus1
    /\ quads.type = "normal"
    /\ quads.value = [i \in 1..12 |-> <<"f", "f", "f", "f">>]
    /\ AddDecimal(Pow192Minus1, <<"1">>) = <<"0">> \o Pow192
    /\ splitGenesToQuads(AddDecimal(genes, Pow256)) = quads

(***************************************************************************)
(* The trait classifier, page.tsx lines 107-122.                           *)
(***************************************************************************)
TraitRelation ==
    {"allShare", "parentsOnlyShare", "matronKittenShare", "sireKittenShare",
     "mutation"}

\* String.prototype.at(index): undefined when the index is out of range
at(s, index) ==
    LET k == IF index < 0 THEN Len(s) + index ELSE index
    IN  IF k < 0 \/ k >= Len(s) THEN undefined ELSE <<s[k + 1]>>

\* mutant: quad?.at(0), the first character in place of the last
OptionalAt_First(quad, index) == IF quad = undefined THEN undefined ELSE at(quad, 0)

\* quad?.at(index): undefined when quad is undefined
OptionalAt(quad, index) == IF quad = undefined THEN undefined ELSE at(quad, index)

\* truthiness of a value that is undefined or a string: only undefined and
\* "" are falsy ("0" is a non-empty string, and truthy)
ToBoolean(v) == v # undefined /\ v # <<>>

\* mutant: no final return, the fall-through yields undefined
deriveTraitRelation_NoDefault(matronQuad, sireQuad, kittenQuad) ==
    LET m == OptionalAt(matronQuad, -1)
        s == OptionalAt(sireQuad, -1)
        k == OptionalAt(kittenQuad, -1)
    IN  IF ToBoolean(m) /\ ToBoolean(s) /\ ToBoolean(k)
        THEN IF m = s /\ s = k THEN "allShare"
             ELSE IF m = s /\ k # m THEN "parentsOnlyShare"
             ELSE IF m = k /\ s # k THEN "matronKittenShare"
             ELSE IF s = k /\ m # k THEN "sireKittenShare"
             ELSE "undefined"
        ELSE "undefined"

\* mutant: the guard is (s && k), the matron nibble is not tested
deriveTraitRelation_GuardSK(matronQuad, sireQuad, kittenQuad) ==
    LET m == OptionalAt(matronQuad, -1)
        s == OptionalAt(sireQuad, -1)
        k == OptionalAt(kittenQuad, -1)
    IN  IF ToBoolean(s) /\ ToBoolean(k)
        THEN IF m = s /\ s = k THEN "allShare"
             ELSE IF m = s /\ k # m THEN "parentsOnlyShare"
             ELSE IF m = k /\ s # k THEN "matronKittenShare"
             ELSE IF s = k /\ m # k THEN "sireKittenShare"
             ELSE "mutation"
        ELSE "mutation"

\* mutant: allShare is returned as soon as (m === s)
deriveTraitRelation_AllShareMS(matronQuad, sireQuad, kittenQuad) ==
    LET m == OptionalAt(matronQuad, -1)
        s == OptionalAt(sireQuad, -1)
        k == OptionalAt(kittenQuad, -1)
    IN  IF ToBoolean(m) /\ ToBoolean(s) /\ ToBoolean(k)
        THEN IF m = s THEN "allShare"
             ELSE IF m = s /\ k # m THEN "parentsOnlyShare"
             ELSE IF m = k /\ s # k THEN "matronKittenShare"
             ELSE IF s = k /\ m # k THEN "sireKittenShare"
             ELSE "mutation"
        ELSE "mutation"

\* mutant: the parents test comes first and does not look at the kitten
deriveTraitRelation_ParentsFirst(matronQuad, sireQuad, kittenQuad) ==
    LET m == OptionalAt(matronQuad, -1)
        s == OptionalAt(sireQuad, -1)
        k == OptionalAt(kittenQuad, -1)
    IN  IF ToBoolean(m) /\ ToBoolean(s) /\ ToBoolean(k)
        THEN IF m = s THEN "parentsOnlyShare"
             ELSE IF m = s /\ s = k THEN "allShare"
             ELSE IF m = k /\ s # k THEN "matronKittenShare"
             ELSE IF s = k /\ m # k THEN "sireKittenShare"
             ELSE "mutation"
        ELSE "mutation"

\* mutant: the matron branch tests the sire against the kitten
deriveTraitRelation_MatronTestsSire(matronQuad, sireQuad, kittenQuad) ==
    LET m == OptionalAt(matronQuad, -1)
        s == OptionalAt(sireQuad, -1)
        k == OptionalAt(kittenQuad, -1)
    IN  IF ToBoolean(m) /\ ToBoolean(s) /\ ToBoolean(k)
        THEN IF m = s /\ s = k THEN "allShare"
             ELSE IF m = s /\ k # m THEN "parentsOnlyShare"
             ELSE IF s = k /\ m # k THEN "matronKittenShare"
             ELSE IF s = k /\ m # k THEN "sireKittenShare"
             ELSE "mutation"
        ELSE "mutation"

\* mutant: the sire branch is missing
deriveTraitRelation_NoSireBranch(matronQuad, sireQuad, kittenQuad) ==
    LET m == OptionalAt(matronQuad, -1)
        s == OptionalAt(sireQuad, -1)
        k == OptionalAt(kittenQuad, -1)
    IN  IF ToBoolean(m) /\ ToBoolean(s) /\ ToBoolean(k)
        THEN IF m = s /\ s = k THEN "allShare"
             ELSE IF m = s /\ k # m THEN "parentsOnlyShare"
             ELSE IF m = k /\ s # k THEN "matronKittenShare"
             ELSE "mutation"
        ELSE "mutation"

deriveTraitRelation(matronQuad, sireQuad, kittenQuad) ==
    LET m == OptionalAt(matronQuad, -1)
        s == OptionalAt(sireQuad, -1)
        k == OptionalAt(kittenQuad, -1)
    IN  IF ToBoolean(m) /\ ToBoolean(s) /\ ToBoolean(k)
        THEN IF m = s /\ s = k THEN "allShare"
             ELSE IF m = s /\ k # m THEN "parentsOnlyShare"
             ELSE IF m = k /\ s # k THEN "matronKittenShare"
             ELSE IF s = k /\ m # k THEN "sireKittenShare"
             ELSE "mutation"
        ELSE "mutation"

(***************************************************************************)
(* Inputs of the classifier: undefined, "", and strings of up to           *)
(* MaxRecessive recessive characters followed by a dominant one.           *)
(***************************************************************************)
MaxRecessive == 3

RecessiveChars == {"0", "f"}
DominantChars == {"0", "4", "5"}

\* the trait groups of the classifier's documented examples
ExampleQuads ==
    {<<"1","2","3","4">>, <<"5","6","7","4">>, <<"9","9","9","4">>,
     <<"1","2","3","5">>, <<"5","6","7","5">>, <<"9","9","9","6">>,
     <<"5","6","7","6">>, <<"9","9","9","5">>, <<"1","2","3","6">>,
     <<"5","6","7","7">>, <<"9","9","9","8">>}

QuadInputs ==
    {undefined, <<>>}
    \cup ExampleQuads
    \cup {p \o <<d>> :
            p \in UNION {[1..n -> RecessiveChars] : n \in 0..MaxRecessive},
            d \in DominantChars}

InitClassifier ==
    /\ matronArg \in QuadInputs
    /\ sireArg \in QuadInputs
    /\ kittenArg \in QuadInputs
    /\ relation = "pending"
    /\ genes = <<>>
    /\ quads = Pending
    /\ HomeNotMounted

CallDeriveTraitRelation ==
    /\ relation = "pending"
    /\ relation' = deriveTraitRelation(matronArg, sireArg, kittenArg)
    /\ UNCHANGED <<genes, quads, matronArg, sireArg, kittenArg, homeVars>>

NextClassifier == CallDeriveTraitRelation

SpecClassifier == InitClassifier /\ [][NextClassifier]_vars

(***************************************************************************)
(* What the classifier claims speak of, stated without the classifier.     *)
(***************************************************************************)
ClassifierCalled == relation # "pending"

\* a group is present and has a dominant (last) nibble
HasDominant(quad) == quad # undefined /\ Len(quad) > 0
Dominant(quad) == quad[Len(quad)]

AllPresent ==
    HasDominant(matronArg) /\ HasDominant(sireArg) /\ HasDominant(kittenArg)

\* C5: for every combination of three optional groups the classifier returns
\* exactly one of the five values allShare, parentsOnlyShare,
\* matronKittenShare, sireKittenShare, mutation (the code's names of the
\* five relations).
C5_ResultIsOneOfFive ==
    ClassifierCalled =>
        relation \in {"allShare", "parentsOnlyShare", "matronKittenShare",
                      "sireKittenShare", "mutation"}

C5_Witness ==
    /\ ClassifierCalled
    /\ matronArg = undefined
    /\ sireArg = <<"0", "f", "0", "4">>
    /\ kittenArg = <<>>
    /\ relation \in TraitRelation

\* C6: if any of the three groups is absent (undefined) or has no last
\* character (the empty string), the result is mutation, whatever the other
\* two groups are.
C6_AbsentGivesMutation ==
    (ClassifierCalled /\ ~AllPresent) => relation = "mutation"

\* the matron is absent while sire and kitten share their dominant nibble
C6_Witness ==
    /\ ClassifierCalled
    /\ matronArg = undefined
    /\ sireArg = <<"5", "6", "7", "5">>
    /\ kittenArg = <<"9", "9", "9", "5">>
    /\ relation = "mutation"

\* C7: the result is allShare if and only if all three groups are present
\* and their dominant nibbles m, s, k are all equal.
C7_AllShareIff ==
    ClassifierCalled =>
        (relation = "allShare"
            <=> /\ AllPresent
                /\ Dominant(matronArg) = Dominant(sireArg)
                /\ Dominant(sireArg) = Dominant(kittenArg))

C7_Witness ==
    /\ matronArg = <<"1", "2", "3", "4">>
    /\ sireArg = <<"5", "6", "7", "4">>
    /\ kittenArg = <<"9", "9", "9", "4">>
    /\ relation = "allShare"

\* C8: the result is parentsOnlyShare if and only if all three groups are
\* present, the matron and sire dominant nibbles are equal, and the
\* offspring dominant nibble differs from them.
C8_ParentsOnlyShareIff ==
    ClassifierCalled =>
        (relation = "parentsOnlyShare"
            <=> /\ AllPresent
                /\ Dominant(matronArg) = Dominant(sireArg)
                /\ Dominant(kittenArg) # Dominant(matronArg))

C8_Witness ==
    /\ matronArg = <<"1", "2", "3", "5">>
    /\ sireArg = <<"5", "6", "7", "5">>
    /\ kittenArg = <<"9", "9", "9", "6">>
    /\ relation = "parentsOnlyShare"

\* C9: the result is matronKittenShare (the spec's matronOffspringShare) if
\* and only if all three groups are present, the matron and offspring
\* dominant nibbles are equal, and the sire dominant nibble differs from them.
C9_MatronOffspringShareIff ==
    ClassifierCalled =>
        (relation = "matronKittenShare"
            <=> /\ AllPresent
                /\ Dominant(matronArg) = Dominant(kittenArg)
                /\ Dominant(sireArg) # Dominant(matronArg))

C9_Witness ==
    /\ matronArg = <<"1", "2", "3", "5">>
    /\ sireArg = <<"5", "6", "7", "6">>
    /\ kittenArg = <<"9", "9", "9", "5">>
    /\ relation = "matronKittenShare"

\* C10: the result is sireKittenShare (the spec's sireOffspringShare) if and
\* only if all three groups are present, the sire and offspring dominant
\* nibbles are equal, and the matron dominant nibble differs from them.
C10_SireOffspringShareIff ==
    ClassifierCalled =>
        (relation = "sireKittenShare"
            <=> /\ AllPresent
                /\ Dominant(sireArg) = Dominant(kittenArg)
                /\ Dominant(matronArg) # Dominant(sireArg))

C10_Witness ==
    /\ matronArg = <<"1", "2", "3", "6">>
    /\ sireArg = <<"5", "6", "7", "5">>
    /\ kittenArg = <<"9", "9", "9", "5">>
    /\ relation = "sireKittenShare"

\* C11: when all three groups are present, the result is mutation if and
\* only if the three dominant nibbles are pairwise distinct.
C11_MutationIffPairwiseDistinct ==
    (ClassifierCalled /\ AllPresent) =>
        (relation = "mutation"
            <=> /\ Dominant(matronArg) # Dominant(sireArg)
                /\ Dominant(matronArg) # Dominant(kittenArg)
                /\ Dominant(sireArg) # Dominant(kittenArg))

C11_Witness ==
    /\ matronArg = <<"1", "2", "3", "6">>
    /\ sireArg = <<"5", "6", "7", "7">>
    /\ kittenArg = <<"9", "9", "9", "8">>
    /\ relation = "mutation"

\* a group with its recessive characters replaced by those of p
ReplaceRecessive(quad, p) == p \o <<Dominant(quad)>>
RecessiveReplacements == {<<"0", "0", "0">>, <<"f", "0", "f">>}

\* C12: the result depends only on the dominant (last) character of each
\* group: replacing the recessive characters of any of the three groups by
\* any other characters gives the result of the call.  (Every group of the
\* model is compared with the two replacements, one group at a time: the
\* replaced triple is again an input of the model, so any two triples with
\* the same dominant characters have the same result.)
C12_OnlyDominantMatters ==
    ClassifierCalled =>
        \A p \in RecessiveReplacements :
            /\ HasDominant(matronArg) =>
                  deriveTraitRelation(ReplaceRecessive(matronArg, p),
                                      sireArg, kittenArg) = relation
            /\ HasDominant(sireArg) =>
                  deriveTraitRelation(matronArg,
                                      ReplaceRecessive(sireArg, p),
                                      kittenArg) = relation
            /\ HasDominant(kittenArg) =>
                  deriveTraitRelation(matronArg, sireArg,
                                      ReplaceRecessive(kittenArg, p)) = relation

\* groups that differ in all recessive characters and share the dominant one
C12_Witness ==
    /\ matronArg = <<"0", "0", "0", "4">>
    /\ sireArg = <<"f", "f", "f", "4">>
    /\ kittenArg = <<"0", "f", "0", "5">>
    /\ relation = "parentsOnlyShare"

\* the dominant nibble of a group as the comparisons see it
NibbleOf(quad) == IF HasDominant(quad) THEN <<Dominant(quad)>> ELSE undefined

\* the four sharing predicates, in the order of the code, and their results
SharingPredicate(i, m, s, k) ==
    IF i = 1 THEN m = s /\ s = k
    ELSE IF i = 2 THEN m = s /\ k # m
    ELSE IF i = 3 THEN m = k /\ s # k
    ELSE s = k /\ m # k

SharingResult ==
    <<"allShare", "parentsOnlyShare", "matronKittenShare", "sireKittenShare">>

\* every order of the four branches
BranchOrders == Permutations(1..4)

\* the result of testing the predicates in the given order
FirstMatch(order, m, s, k) ==
    LET hits == {j \in 1..4 : SharingPredicate(order[j], m, s, k)}
    IN  IF hits = {}
        THEN "mutation"
        ELSE SharingResult[order[CHOOSE j \in hits : \A h \in hits : j <= h]]

\* C19: the four sharing predicates are mutually exclusive for every input,
\* so the result (within the guard that all three nibbles exist) equals the
\* earliest matching branch, and testing the branches in any other order
\* gives the same result.
C19_BranchesExclusive ==
    ClassifierCalled =>
        LET m == NibbleOf(matronArg)
            s == NibbleOf(sireArg)
            k == NibbleOf(kittenArg)
        IN  /\ \A i \in 1..4 : \A j \in 1..4 :
                  i # j => ~(SharingPredicate(i, m, s, k)
                             /\ SharingPredicate(j, m, s, k))
            /\ AllPresent =>
                  \A order \in BranchOrders :
                      FirstMatch(order, m, s, k) = relation
            /\ ~AllPresent => relation = "mutation"

\* parents share, the kitten differs: only the second predicate holds
C19_Witness ==
    /\ ClassifierCalled
    /\ matronArg = <<"0", "4">>
    /\ sireArg = <<"f", "f", "4">>
    /\ kittenArg = <<"5">>
    /\ relation = "parentsOnlyShare"
    /\ SharingPredicate(2, <<"4">>, <<"4">>, <<"5">>)

\* the result with the roles of matron and sire exchanged
SwapParents(result) ==
    CASE result = "matronKittenShare" -> "sireKittenShare"
      [] result = "sireKittenShare" -> "matronKittenShare"
      [] OTHER -> result

\* C27: swapping the matron and sire arguments exchanges the results
\* matronKittenShare and sireKittenShare and leaves allShare,
\* parentsOnlyShare and mutation unchanged, for every combination of present
\* and absent groups.
C27_SwapExchangesParentShares ==
    ClassifierCalled =>
        deriveTraitRelation(sireArg, matronArg, kittenArg)
            = SwapParents(relation)

\* the matron's dominant nibble is the kitten's, the sire's is not: the call
\* gave matronKittenShare, the call with the parents swapped sireKittenShare
C27_Witness ==
    /\ matronArg = <<"1", "2", "3", "5">>
    /\ sireArg = <<"5", "6", "7", "4">>
    /\ kittenArg = <<"9", "9", "9", "5">>
    /\ relation = "matronKittenShare"
    /\ deriveTraitRelation(sireArg, matronArg, kittenArg) = "sireKittenShare"

(***************************************************************************)
(* The Home component, page.tsx lines 392-893.  A record of the index is    *)
(* modelled by the fields the component reads: kittyId, matronId, sireId    *)
(* and genes.  A string that shares a state slot with null is StringOf of   *)
(* the parts it is concatenated from.                                       *)
(***************************************************************************)
Birth(kittyId, matronId, sireId, genesString) ==
    [kittyId |-> kittyId, matronId |-> matronId, sireId |-> sireId,
     genes |-> genesString]

\* the records the index holds: two kitties whose parents have no record,
\* one of them with the genome "0", and a kitty born of the two
Kitty1 == Birth("1", "0", "0", <<"0">>)
Kitty2 == Birth("2", "0", "0", <<"7", "0", "0", "1", "1">>)
Kitty3 == Birth("3", "1", "2", <<"4", "6", "8", "1">>)
BirthList == <<Kitty1, Kitty2, Kitty3>>

\* arr[idx] of JavaScript, zero-based; `absent` is the undefined of the slot
ElementAt(arr, idx, absent) ==
    IF idx + 1 \in 1..Len(arr) THEN arr[idx + 1] ELSE absent

\* the rows of the three queries: LatestBirth (line 406), ByKitty (line 533)
\* and Recent (line 559) select all fields, Parents (lines 427, 513) selects
\* id, kittyId and genes
LatestResults == {<<>>} \cup {<<BirthList[i]>> : i \in 1..Len(BirthList)}

ByKittyResult(id) == SelectSeq(BirthList, LAMBDA b : b.kittyId = id)

RecentResults == {<<>>, <<Kitty3>>, <<Kitty3, Kitty2, Kitty1>>}

ParentRow(b) == [kittyId |-> b.kittyId, genes |-> b.genes]

ParentsResult(ids) ==
    LET rows == SelectSeq(BirthList, LAMBDA b : b.kittyId \in ids)
    IN  [i \in 1..Len(rows) |-> ParentRow(rows[i])]

\* what fetch and res.json() can give, lines 25-33: a rejected fetch, a
\* response that is not ok, a body with an errors field, a body with data
FetchRejected == [rejected |-> TRUE, reason |-> "Failed to fetch"]
NotOk == [rejected |-> FALSE, ok |-> FALSE, status |-> "500"]
ErrorsBody ==
    [rejected |-> FALSE, ok |-> TRUE, status |-> "200",
     json |-> [errors |-> <<[message |-> "field not found"]>>]]
DataBody(rows) ==
    [rejected |-> FALSE, ok |-> TRUE, status |-> "200",
     json |-> [data |-> [KittyCore_Birth |-> rows]]]

FetchFailures == {FetchRejected, NotOk, ErrorsBody}

\* JSON.stringify of the errors array, as the parts of the text
RECURSIVE StringifyErrors(_, _)
StringifyErrors(errors, i) ==
    IF i > Len(errors) THEN <<"]">>
    ELSE (IF i = 1 THEN <<>> ELSE <<",">>)
         \o <<"{\"message\":\"", errors[i].message, "\"}">>
         \o StringifyErrors(errors, i + 1)

JSONStringify(errors) == <<"[">> \o StringifyErrors(errors, 1)

\* gql, lines 21-35, applied to what fetch gave: the completion of the call
gql(res) ==
    IF res.rejected THEN Throw(<<res.reason>>)
    ELSE IF ~res.ok THEN Throw(<<"GraphQL error ", res.status>>)
    ELSE IF "errors" \in DOMAIN res.json
    THEN Throw(JSONStringify(res.json.errors))
    ELSE Normal(res.json.data)

\* e instanceof Error ? e.message : String(e), lines 443, 551, 578; every
\* value thrown in the model is an Error
CatchMessage(completion) == StringOf(completion.value[1])

\* Object.fromEntries(rows.map((b) => [b.kittyId, b])), lines 437, 523
byIdOf(rows) ==
    [id \in {rows[i].kittyId : i \in 1..Len(rows)} |->
        LET last == CHOOSE i \in 1..Len(rows) :
                        /\ rows[i].kittyId = id
                        /\ \A j \in (i + 1)..Len(rows) : rows[j].kittyId # id
        IN  rows[last]]

\* byId[key], undefined for a missing key
Lookup(byId, key) == IF key \in DOMAIN byId THEN byId[key] ELSE undefinedRecord

\* x ?? null, lines 526-527
NullishCoalesce(x) == IF x \in {undefinedRecord, null} THEN null ELSE x

\* record?.genes, lines 451-453 and 474
OptionalGenes(record) ==
    IF record \in {null, undefinedRecord} THEN undefined ELSE record.genes

\* x || "", lines 451-453
OrEmpty(x) == IF ToBoolean(x) THEN x ELSE <<>>

labels ==
    <<"Unknown", "Unknown", "Unknown", "Mouth", "Wild", "Tummy Colour",
      "Pattern Colour", "Body Colour", "Eye Type", "Eye Colour", "Pattern",
      "Body (Tail)">>

\* the traits memo, lines 450-474, for given values of its dependencies
\* matron?.genes, sire?.genes, kitten?.genes
traitsOf(matronGenes, sireGenes, kittenGenes) ==
    LET m == splitGenesToQuads(OrEmpty(matronGenes)).value
        s == splitGenesToQuads(OrEmpty(sireGenes)).value
        k == splitGenesToQuads(OrEmpty(kittenGenes)).value
    IN  [i \in 1..Len(labels) |->
            [label |-> labels[i],
             matron |-> ElementAt(m, i - 1, undefined),
             sire |-> ElementAt(s, i - 1, undefined),
             kitten |-> ElementAt(k, i - 1, undefined)]]

\* traits.some(...), lines 476-483
hasAnyMutationOf(traits) ==
    \E i \in 1..Len(traits) :
        deriveTraitRelation(traits[i].matron, traits[i].sire, traits[i].kitten)
            = "mutation"

\* what the body of Home computes of the records it is rendered with
RenderOf(matronGenes, sireGenes, kittenGenes) ==
    LET traits == traitsOf(matronGenes, sireGenes, kittenGenes)
    IN  [traits |-> traits, hasAnyMutation |-> hasAnyMutationOf(traits)]

\* the values the dependencies of the memo take, and what is rendered for
\* each of them; @@ makes the table a value computed once
GenesValues == {undefined} \cup {BirthList[i].genes : i \in 1..Len(BirthList)}

RenderMemo ==
    [deps \in GenesValues \X GenesValues \X GenesValues |->
        RenderOf(deps[1], deps[2], deps[3])] @@ <<>>

(***************************************************************************)
(* The loads of Home.  A call of an async function is a record: pc is the   *)
(* await it is suspended at ("end" once it has finished), item is the      *)
(* record it fetched (latest, item, pick), caught is the completion that    *)
(* reached its catch clause (null before), promise is the state of the      *)
(* promise the call returned, before is the kitten, matron and sire of the  *)
(* state the call started in.  The code between two awaits runs in one      *)
(* step.                                                                    *)
(***************************************************************************)
\* calls of loadKittenById and loadRandomRecent started in one behaviour
MaxLoads == 1

\* what the user types into the "Kitty ID" field: nothing, the id of a
\* record, an id with no record
KittyIdInputs == {"", "3", "7"}

Responses(rowsSet) == FetchFailures \cup {DataBody(rows) : rows \in rowsSet}

Call(fn, id, pc) ==
    [fn |-> fn, id |-> id, pc |-> pc, item |-> null, caught |-> null,
     promise |-> "pending", before |-> <<kitten, matron, sire>>]

\* the state after the first render of Home and the first run of its
\* effects: the initial load is started, the tour is closed
InitHome ==
    /\ kitten = null
    /\ matron = null
    /\ sire = null
    /\ error = null
    /\ isTourOpen = FALSE
    /\ tourStep = null
    /\ kittyIdInput = ""
    /\ cancelled = FALSE
    /\ effect = Call("effect", "", "awaitLatest")
    /\ loads = <<>>
    /\ rendered = RenderOf(undefined, undefined, undefined).hasAnyMutation
    /\ targetEl = null
    /\ tourEffect = [isTourOpen |-> FALSE, tourStep |-> null,
                     polling |-> FALSE]
    /\ stalePolls = 0
    /\ genes = <<>>
    /\ quads = Pending
    /\ matronArg = undefined
    /\ sireArg = undefined
    /\ kittenArg = undefined
    /\ relation = "pending"

\* the catch clause of the effect, lines 442-445
EffectCatch(completion) ==
    /\ error' = IF ~cancelled THEN CatchMessage(completion) ELSE error
    /\ effect' = [effect EXCEPT !.pc = "end", !.caught = completion,
                                !.promise = "fulfilled"]

\* the effect from the answer to LatestBirth to the second await or the end,
\* lines 417-435
EffectLatestResponse ==
    /\ effect.pc = "awaitLatest"
    /\ \E res \in Responses(LatestResults) :
          LET data1 == gql(res)
              latest == ElementAt(data1.value.KittyCore_Birth, 0,
                                  undefinedRecord)
          IN  IF data1.type = "throw"
              THEN EffectCatch(data1) /\ UNCHANGED kitten
              ELSE IF latest = undefinedRecord \/ cancelled
              THEN /\ effect' = [effect EXCEPT !.pc = "end",
                                               !.promise = "fulfilled"]
                   /\ UNCHANGED <<kitten, error>>
              ELSE /\ kitten' = latest
                   /\ effect' = [effect EXCEPT !.pc = "awaitParents",
                                               !.item = latest]
                   /\ UNCHANGED error
    /\ UNCHANGED <<pureVars, tourVars, matron, sire, isTourOpen, tourStep,
                   kittyIdInput, cancelled, loads, rendered>>

\* the effect from the answer to Parents to its end, lines 435-441
EffectParentsResponse ==
    /\ effect.pc = "awaitParents"
    /\ \E res \in Responses({ParentsResult({effect.item.matronId,
                                            effect.item.sireId})}) :
          LET data2 == gql(res)
              byId == byIdOf(data2.value.KittyCore_Birth)
          IN  IF data2.type = "throw"
              THEN EffectCatch(data2) /\ UNCHANGED <<matron, sire>>
              ELSE /\ matron' = Lookup(byId, effect.item.matronId)
                   /\ sire' = Lookup(byId, effect.item.sireId)
                   /\ effect' = [effect EXCEPT !.pc = "end",
                                               !.promise = "fulfilled"]
                   /\ UNCHANGED error
    /\ UNCHANGED <<pureVars, tourVars, kitten, isTourOpen, tourStep, kittyIdInput,
                   cancelled, loads, rendered>>

\* the cleanup of the effect, lines 446-448
Cleanup ==
    /\ ~cancelled
    /\ cancelled' = TRUE
    /\ UNCHANGED <<pureVars, tourVars, stateVars, effect, loads, rendered>>

\* onChange of the input, line 593
SetKittyIdInput ==
    /\ \E value \in KittyIdInputs \ {kittyIdInput} : kittyIdInput' = value
    /\ UNCHANGED <<pureVars, tourVars, kitten, matron, sire, error, isTourOpen,
                   tourStep, cancelled, effect, loads, rendered>>

\* a click on "Load", line 599, and loadKittenById to its await, lines
\* 531-545
ClickLoad ==
    /\ kittyIdInput # ""
    /\ Len(loads) < MaxLoads
    /\ error' = null
    /\ loads' = Append(loads, Call("loadKittenById", kittyIdInput,
                                   "awaitKitten"))
    /\ UNCHANGED <<pureVars, tourVars, kitten, matron, sire, isTourOpen, tourStep,
                   kittyIdInput, cancelled, effect, rendered>>

\* a click on the random button, line 605, and loadRandomRecent to its
\* await, lines 557-571
ClickRandom ==
    /\ Len(loads) < MaxLoads
    /\ error' = null
    /\ loads' = Append(loads, Call("loadRandomRecent", "", "awaitRecent"))
    /\ UNCHANGED <<pureVars, tourVars, kitten, matron, sire, isTourOpen, tourStep,
                   kittyIdInput, cancelled, effect, rendered>>

\* mutant: the catch clause throws the error again and sets no state
LoadCatch_Rethrow(i, thrown) ==
    /\ loads' = [loads EXCEPT ![i] = [@ EXCEPT !.pc = "end",
                                               !.caught = thrown,
                                               !.promise = "rejected"]]
    /\ UNCHANGED error

\* the catch clause of loadKittenById and loadRandomRecent, lines 550-553
\* and 577-580
LoadCatch(i, thrown) ==
    /\ error' = CatchMessage(thrown)
    /\ loads' = [loads EXCEPT ![i] = [@ EXCEPT !.pc = "end",
                                               !.caught = thrown,
                                               !.promise = "fulfilled"]]

\* the kitten is set and loadParentsFor runs to its await, lines 548-549,
\* 574-575 and 512-521
LoadSetKitten(i, record) ==
    /\ kitten' = record
    /\ loads' = [loads EXCEPT ![i] = [@ EXCEPT !.pc = "awaitParents",
                                               !.item = record]]
    /\ UNCHANGED error

\* loadKittenById from the answer to ByKitty on, lines 545-549
LoadKittenResponse(i) ==
    /\ loads[i].pc = "awaitKitten"
    /\ \E res \in Responses({ByKittyResult(loads[i].id)}) :
          LET data == gql(res)
              item == ElementAt(data.value.KittyCore_Birth, 0,
                                undefinedRecord)
          IN  IF data.type = "throw"
              THEN LoadCatch(i, data) /\ UNCHANGED kitten
              ELSE IF item = undefinedRecord
              THEN /\ LoadCatch(i, Throw(<<"Kitty not found">>))
                   /\ UNCHANGED kitten
              ELSE LoadSetKitten(i, item)
    /\ UNCHANGED <<pureVars, tourVars, matron, sire, isTourOpen, tourStep,
                   kittyIdInput, cancelled, effect, rendered>>

\* mutant: the kitten set is the pick, the parents are loaded for arr[0]
LoadRandomResponse_ParentsOfFirst(i) ==
    /\ loads[i].pc = "awaitRecent"
    /\ \E res \in Responses(RecentResults) :
          LET data == gql(res)
              arr == data.value.KittyCore_Birth
          IN  IF data.type = "throw"
              THEN LoadCatch(i, data) /\ UNCHANGED kitten
              ELSE IF Len(arr) = 0
              THEN /\ LoadCatch(i, Throw(<<"No kitties available">>))
                   /\ UNCHANGED kitten
              ELSE \E r \in 0..(Len(arr) - 1) :
                      /\ kitten' = ElementAt(arr, r, undefinedRecord)
                      /\ loads' = [loads EXCEPT ![i] =
                                      [@ EXCEPT !.pc = "awaitParents",
                                                !.item = arr[1]]]
                      /\ UNCHANGED error
    /\ UNCHANGED <<pureVars, tourVars, matron, sire, isTourOpen, tourStep,
                   kittyIdInput, cancelled, effect, rendered>>

\* loadRandomRecent from the answer to Recent on, lines 571-575; r is
\* Math.floor(Math.random() * arr.length)
LoadRandomResponse(i) ==
    /\ loads[i].pc = "awaitRecent"
    /\ \E res \in Responses(RecentResults) :
          LET data == gql(res)
              arr == data.value.KittyCore_Birth
          IN  IF data.type = "throw"
              THEN LoadCatch(i, data) /\ UNCHANGED kitten
              ELSE IF Len(arr) = 0
              THEN /\ LoadCatch(i, Throw(<<"No kitties available">>))
                   /\ UNCHANGED kitten
              ELSE \E r \in 0..(Len(arr) - 1) :
                      LoadSetKitten(i, ElementAt(arr, r, undefinedRecord))
    /\ UNCHANGED <<pureVars, tourVars, matron, sire, isTourOpen, tourStep,
                   kittyIdInput, cancelled, effect, rendered>>

\* loadParentsFor from the answer to Parents on, lines 522-527, and the end
\* of the function that awaited it
LoadParentsResponse(i) ==
    /\ loads[i].pc = "awaitParents"
    /\ \E res \in Responses({ParentsResult({loads[i].item.matronId,
                                            loads[i].item.sireId})}) :
          LET data2 == gql(res)
              byId == byIdOf(data2.value.KittyCore_Birth)
          IN  IF data2.type = "throw"
              THEN LoadCatch(i, data2) /\ UNCHANGED <<matron, sire>>
              ELSE /\ matron' = NullishCoalesce(
                                    Lookup(byId, loads[i].item.matronId))
                   /\ sire' = NullishCoalesce(
                                  Lookup(byId, loads[i].item.sireId))
                   /\ loads' = [loads EXCEPT ![i] =
                                   [@ EXCEPT !.pc = "end",
                                             !.promise = "fulfilled"]]
                   /\ UNCHANGED error
    /\ UNCHANGED <<pureVars, tourVars, kitten, isTourOpen, tourStep, kittyIdInput,
                   cancelled, effect, rendered>>

\* mutant: the render clears the error
Render_ClearsError ==
    LET deps == <<OptionalGenes(matron), OptionalGenes(sire),
                  OptionalGenes(kitten)>>
    IN  /\ rendered # RenderMemo[deps].hasAnyMutation
        /\ rendered' = RenderMemo[deps].hasAnyMutation
        /\ error' = null
        /\ UNCHANGED <<pureVars, tourVars, kitten, matron, sire, isTourOpen, tourStep,
                       kittyIdInput, cancelled, effect, loads>>

\* a render of Home after its records changed, lines 450-483: the calls of
\* splitGenesToQuads and deriveTraitRelation
Render ==
    LET deps == <<OptionalGenes(matron), OptionalGenes(sire),
                  OptionalGenes(kitten)>>
    IN  /\ rendered # RenderMemo[deps].hasAnyMutation
        /\ rendered' = RenderMemo[deps].hasAnyMutation
        /\ UNCHANGED <<pureVars, tourVars, stateVars, cancelled, effect, loads>>

NextHome ==
    \/ EffectLatestResponse
    \/ EffectParentsResponse
    \/ Cleanup
    \/ SetKittyIdInput
    \/ ClickLoad
    \/ ClickRandom
    \/ \E i \in 1..Len(loads) : LoadKittenResponse(i)
    \/ \E i \in 1..Len(loads) : LoadRandomResponse(i)
    \/ \E i \in 1..Len(loads) : LoadParentsResponse(i)
    \/ Render

SpecHome == InitHome /\ [][NextHome]_vars

(***************************************************************************)
(* The tour of Home, lines 484-506 and 857-891.  The tour-target effect     *)
(* runs after a render in which isTourOpen or tourStep changed: the cleanup *)
(* of its last run, then its body.  A find that got no element asks for an  *)
(* animation frame and runs again, also after the cleanup of its run.       *)
(***************************************************************************)
\* polling callbacks of cleaned-up effect runs in one behaviour
MaxStalePolls == 2

kittenMouthDominance == StringOf(<<"kittenMouthDominance">>)

\* the element of the kitten's Mouth trait, lines 800-804
MouthElement == [genome |-> "kitten", trait |-> "Mouth"]

\* what find can assign to el, lines 492-498: null, or for the step
\* kittenMouthDominance what document.querySelector gives
FindResults(step) ==
    IF step = kittenMouthDominance THEN {null, MouthElement} ELSE {null}

\* a click on "Explain Genome to me", lines 858-860
ClickExplain ==
    /\ isTourOpen' = TRUE
    /\ tourStep' = kittenMouthDominance
    /\ UNCHANGED <<pureVars, tourVars, kitten, matron, sire, error,
                   kittyIdInput, cancelled, effect, loads, rendered>>

\* onNext and onClose of the overlay, rendered while isTourOpen, lines
\* 876-888
CloseTour ==
    /\ isTourOpen
    /\ isTourOpen' = FALSE
    /\ tourStep' = null
    /\ UNCHANGED <<pureVars, tourVars, kitten, matron, sire, error,
                   kittyIdInput, cancelled, effect, loads, rendered>>

\* mutant: the effect does not reset the target when the tour is closed
RunTourEffect_NoReset ==
    /\ <<tourEffect.isTourOpen, tourEffect.tourStep>> # <<isTourOpen, tourStep>>
    /\ tourEffect.polling => stalePolls < MaxStalePolls
    /\ stalePolls' = IF tourEffect.polling THEN stalePolls + 1 ELSE stalePolls
    /\ IF ~isTourOpen
       THEN /\ UNCHANGED targetEl
            /\ tourEffect' = [isTourOpen |-> isTourOpen,
                              tourStep |-> tourStep, polling |-> FALSE]
       ELSE \E el \in FindResults(tourStep) :
               /\ targetEl' = el
               /\ tourEffect' = [isTourOpen |-> isTourOpen,
                                 tourStep |-> tourStep,
                                 polling |-> (el = null)]
    /\ UNCHANGED <<pureVars, stateVars, cancelled, effect, loads, rendered>>

\* the effect after a change of isTourOpen or tourStep, lines 485-506: the
\* cleanup of the last run (active = false, its find polls on if it was
\* polling), then the body with its first call of find
RunTourEffect ==
    /\ <<tourEffect.isTourOpen, tourEffect.tourStep>> # <<isTourOpen, tourStep>>
    /\ tourEffect.polling => stalePolls < MaxStalePolls
    /\ stalePolls' = IF tourEffect.polling THEN stalePolls + 1 ELSE stalePolls
    /\ IF ~isTourOpen
       THEN /\ targetEl' = null
            /\ tourEffect' = [isTourOpen |-> isTourOpen,
                              tourStep |-> tourStep, polling |-> FALSE]
       ELSE \E el \in FindResults(tourStep) :
               /\ targetEl' = el
               /\ tourEffect' = [isTourOpen |-> isTourOpen,
                                 tourStep |-> tourStep,
                                 polling |-> (el = null)]
    /\ UNCHANGED <<pureVars, stateVars, cancelled, effect, loads, rendered>>

\* find called by requestAnimationFrame while its run is active, lines
\* 491-500
Poll ==
    /\ tourEffect.polling
    /\ \E el \in FindResults(tourEffect.tourStep) :
          /\ targetEl' = el
          /\ tourEffect' = [tourEffect EXCEPT !.polling = (el = null)]
    /\ UNCHANGED <<pureVars, stateVars, cancelled, effect, loads, rendered,
                   stalePolls>>

\* find called by requestAnimationFrame after the cleanup of its run
\* (active is false), lines 491-500: it sets nothing, and polls on unless
\* it got the element
StalePoll ==
    /\ stalePolls > 0
    /\ \E el \in FindResults(kittenMouthDominance) :
          stalePolls' = IF el = null THEN stalePolls ELSE stalePolls - 1
    /\ UNCHANGED <<pureVars, stateVars, cancelled, effect, loads, rendered,
                   targetEl, tourEffect>>

\* Home with its tour and its initial load, no load started by the user
NextTour ==
    \/ ClickExplain
    \/ CloseTour
    \/ RunTourEffect
    \/ Poll
    \/ StalePoll
    \/ EffectLatestResponse
    \/ EffectParentsResponse
    \/ Cleanup
    \/ SetKittyIdInput
    \/ Render

SpecTour == InitHome /\ [][NextTour]_vars

(***************************************************************************)
(* What the claims about Home speak of.                                     *)
(***************************************************************************)
Loaded(record) == record \notin {null, undefinedRecord}

\* the traits Home computes in the current state
currentTraits ==
    traitsOf(OptionalGenes(matron), OptionalGenes(sire), OptionalGenes(kitten))

\* the groups of a loaded record whose genome is "0"
GroupsOfZero == splitGenesToQuads(<<"0">>).value

\* C13: in the traits computed by Home, the trait groups of a record that is
\* not loaded are absent, and are not the groups "0000" computed for a
\* loaded record whose genome is "0".
C13_UnloadedRecordHasNoGroups ==
    \A i \in 1..Len(currentTraits) :
        /\ ~Loaded(matron) =>
              /\ currentTraits[i].matron = undefined
              /\ currentTraits[i].matron # GroupsOfZero[i]
        /\ ~Loaded(sire) =>
              /\ currentTraits[i].sire = undefined
              /\ currentTraits[i].sire # GroupsOfZero[i]
        /\ ~Loaded(kitten) =>
              /\ currentTraits[i].kitten = undefined
              /\ currentTraits[i].kitten # GroupsOfZero[i]

\* C16: a render of Home, which calls splitGenesToQuads and
\* deriveTraitRelation, leaves kitten, matron, sire, error and the tour
\* state, and with them the arguments of the calls, unchanged.
C16_CallsLeaveStateUnchanged ==
    [][rendered' # rendered =>
          UNCHANGED <<kitten, matron, sire, error, isTourOpen, tourStep>>]_vars

\* a render found a mutation among the traits of kitty 3 and its parents
\* while an error message was set
C16_Witness ==
    /\ rendered = TRUE
    /\ kitten = Kitty3
    /\ matron = ParentRow(Kitty1)
    /\ sire = ParentRow(Kitty2)
    /\ error # null

\* the completions of a failed request: a rejected fetch, a response that
\* is not ok, a body with an errors field
GqlFailures ==
    {Throw(<<"Failed to fetch">>), Throw(<<"GraphQL error ", "500">>),
     Throw(<<"[", "{\"message\":\"", "field not found", "\"}", "]">>)}

\* a step in which a call ends in its catch clause with a failed request
RequestFailed(before, after) ==
    before.pc # "end" /\ after.pc = "end" /\ after.caught \in GqlFailures

\* C17: when a request of the initial load (not cancelled), of
\* loadKittenById or of loadRandomRecent fails, error is set to the message
\* of the failure, which is not null, and the load ends normally: the
\* failure does not leave the load.
C17_FailedFetchSetsError ==
    [][/\ (RequestFailed(effect, effect') /\ ~cancelled) =>
              /\ error' # null
              /\ error' = StringOf(effect'.caught.value[1])
              /\ effect'.promise = "fulfilled"
       /\ \A i \in 1..Len(loads) :
              RequestFailed(loads[i], loads'[i]) =>
                  /\ error' # null
                  /\ error' = StringOf(loads'[i].caught.value[1])
                  /\ loads'[i].promise = "fulfilled"]_vars

\* the initial load failed with a response that was not ok, then
\* loadKittenById failed with a rejected fetch
C17_Witness ==
    /\ ~cancelled
    /\ effect.pc = "end"
    /\ effect.caught = Throw(<<"GraphQL error ", "500">>)
    /\ Len(loads) = 1
    /\ loads[1].fn = "loadKittenById"
    /\ loads[1].pc = "end"
    /\ loads[1].caught = Throw(<<"Failed to fetch">>)
    /\ loads[1].promise = "fulfilled"
    /\ error = StringOf(<<"Failed to fetch">>)

\* C20: in every state of Home where kitten, matron or sire is not loaded,
\* every one of the 12 trait positions is classified as mutation and
\* hasAnyMutation is true; so in the initial state.
C20_UnloadedRecordGivesMutation ==
    (~Loaded(kitten) \/ ~Loaded(matron) \/ ~Loaded(sire)) =>
        /\ \A i \in 1..Len(currentTraits) :
              deriveTraitRelation(currentTraits[i].matron,
                                  currentTraits[i].sire,
                                  currentTraits[i].kitten) = "mutation"
        /\ hasAnyMutationOf(currentTraits)

(***************************************************************************)
(* Overlapping loads.  The initial load is the first load started; the      *)
(* calls of loadKittenById and loadRandomRecent follow in loads.            *)
(***************************************************************************)
AllLoads == <<effect>> \o loads

NoLoadInFlight == \A n \in 1..Len(AllLoads) : AllLoads[n].pc = "end"

\* the load started last
LastLoad == AllLoads[Len(AllLoads)]

Failed(call) == call.caught # null

\* C21: in every state where no load is in flight and the last load did not
\* fail, a loaded matron has the kittyId kitten.matronId and a loaded sire
\* the kittyId kitten.sireId, for every interleaving of overlapping loads.
C21_ParentsBelongToKitten ==
    (NoLoadInFlight /\ ~Failed(LastLoad)) =>
        /\ Loaded(matron) =>
              Loaded(kitten) /\ matron.kittyId = kitten.matronId
        /\ Loaded(sire) =>
              Loaded(kitten) /\ sire.kittyId = kitten.sireId

\* C22: when overlapping loads have all succeeded and finished, the kitten
\* in state is the one fetched by the load started last: the response of a
\* load started earlier never replaces it.
C22_LastStartedLoadWins ==
    (NoLoadInFlight
        /\ \A n \in 1..Len(AllLoads) :
              ~Failed(AllLoads[n]) /\ Loaded(AllLoads[n].item))
    => kitten = LastLoad.item

\* C23: once cancelled is true, the initial-load effect sets none of kitten,
\* matron, sire and error, at whichever await the cancellation happened.
C23_CancelledEffectSetsNothing ==
    [][(cancelled /\ effect' # effect) =>
          UNCHANGED <<kitten, matron, sire, error>>]_vars

\* a step in which the call `before` -> `after` of the function fn ends
\* with an error caught
EndsWithError(fn, before, after) ==
    before.fn = fn /\ before.pc # "end" /\ after.pc = "end" /\ Failed(after)

\* no load other than loads[i] has set a record: each is at its first await
OthersSetNothing(i) ==
    /\ effect.pc = "awaitLatest"
    /\ \A j \in 1..Len(loads) :
          j # i => loads[j].pc \in {"awaitKitten", "awaitRecent"}

\* C24: when loadKittenById ends with an error (kitten not found, or a
\* failed kitten or parents request), kitten, matron and sire are the ones
\* of the state the call started in; only error changes.  Stated of the
\* calls during which no other load set a record, so that a change is the
\* call's own.
C24_FailedLoadKeepsRecords ==
    [][\A i \in 1..Len(loads) :
          (EndsWithError("loadKittenById", loads[i], loads'[i])
              /\ OthersSetNothing(i)) =>
              <<kitten', matron', sire'>> = loads[i].before]_vars

\* C25: loadKittenById and loadRandomRecent clear error when they start,
\* and in every state where no load is in flight, error is non-null only if
\* the most recently started of these loads ended in failure, for every
\* interleaving of overlapping loads.  Stated of the states in which such a
\* load was started.
C25_ErrorReflectsLatestLoad ==
    [][/\ Len(loads') > Len(loads) => error' = null
       /\ (NoLoadInFlight' /\ Len(loads') > 0 /\ error' # null) =>
              Failed(loads'[Len(loads')])]_vars

\* the records a Recent query can return
RecentRows == UNION {{rows[n] : n \in 1..Len(rows)} : rows \in RecentResults}

\* what loadParentsFor leaves in matron or sire for the parent id: the
\* record of that id, or null when there is none
ParentFor(record, id) ==
    record = null \/ (Loaded(record) /\ record.kittyId = id)

NoKitties == Throw(<<"No kitties available">>)

\* the steps of the call loads[i] after its start
C26_Step(i) ==
    /\ (loads[i].pc = "awaitRecent" /\ loads'[i].caught = NoKitties)
          => /\ error' = StringOf(<<"No kitties available">>)
             /\ UNCHANGED <<kitten, matron, sire>>
    /\ (loads[i].pc = "awaitRecent" /\ loads'[i].pc = "awaitParents")
          => /\ kitten' \in RecentRows
             /\ loads'[i].item = kitten'
    /\ loads[i].pc = "awaitParents"
          => /\ loads'[i].item = loads[i].item
             /\ (loads'[i].pc = "end" /\ ~Failed(loads'[i]))
                   => /\ ParentFor(matron', loads[i].item.matronId)
                      /\ ParentFor(sire', loads[i].item.sireId)

\* C26: loadRandomRecent sets error to "No kitties available" and leaves
\* kitten, matron and sire unchanged when the Recent query returns an empty
\* list; otherwise the kitten it sets is one of the records returned, and
\* the parents are then loaded for that same record.
C26_RandomLoadsOnePick ==
    [][\A i \in 1..Len(loads') :
          loads'[i].fn = "loadRandomRecent" =>
              /\ i > Len(loads) => UNCHANGED <<kitten, matron, sire>>
              /\ i <= Len(loads) => C26_Step(i)]_vars

\* the initial load showed kitty 3 and its parents; loadRandomRecent then
\* got an empty list
C26_Witness ==
    /\ Len(loads) = 1
    /\ loads[1].fn = "loadRandomRecent"
    /\ loads[1].pc = "end"
    /\ loads[1].caught = NoKitties
    /\ error = StringOf(<<"No kitties available">>)
    /\ kitten = Kitty3
    /\ matron = ParentRow(Kitty1)
    /\ sire = ParentRow(Kitty2)

(***************************************************************************)
(* The tour.                                                               *)
(***************************************************************************)
\* the tour-target effect has run for the values Home now holds
TourEffectSettled ==
    <<tourEffect.isTourOpen, tourEffect.tourStep>> = <<isTourOpen, tourStep>>

\* C28 as stated: isTourOpen is true exactly when tourStep is non-null, and
\* whenever the tour is closed the target element is null.
C28_ClosedTourHasNoTarget ==
    /\ isTourOpen <=> tourStep # null
    /\ ~isTourOpen => targetEl = null

\* C28: isTourOpen is true exactly when tourStep is non-null; and once the
\* tour is closed and the tour-target effect has run for the closed tour,
\* the target element is null, and it stays null until the tour is opened
\* again whatever the polling of earlier runs finds.
C28_SettledClosedTourHasNoTarget ==
    /\ isTourOpen <=> tourStep # null
    /\ (~isTourOpen /\ TourEffectSettled) => targetEl = null

\* the tour was closed while its effect was polling; the effect has run for
\* the closed tour and the polling of the old run is still going on
C28_Witness ==
    /\ ~isTourOpen
    /\ tourStep = null
    /\ TourEffectSettled
    /\ stalePolls > 0
    /\ targetEl = null

====
